---------------------------- MODULE Spec2Model ----------------------------
(***************************************************************************)
(* PontoView news builder: one run of build_news.mjs, in its two variants. *)
(*                                                                         *)
(*   "definitivo"  src/pontoview-news-standalone-definitivo/scripts/       *)
(*                 build_news.mjs  (rss-parser, image cache, sort, sweep)  *)
(*   "scripts"     src/scripts/build_news.mjs  (hand-rolled parser,        *)
(*                 blocklist, shuffle, cfg.limit)                          *)
(*                                                                         *)
(* The run is a batch: read the config, walk the sources in configured     *)
(* order, finalize (sort or shuffle, sweep, write the manifest), exit.     *)
(* Inputs (the config, every feed, every network answer) are drawn from    *)
(* small sets as the run reaches the place that reads them.                *)
(***************************************************************************)
EXTENDS Integers, Sequences, FiniteSets, TLC

\* ------------------------------------------------------------------ bounds

\* Feed entries with freely chosen content, over the whole run (definitivo).
MaxEntries == 2
\* Sources after the uniform ("bulk") prefix of the source list.
MaxSources == 2
\* Sources of the uniform prefix: each serves a long feed of identical entries.
MaxBulk == 5
\* <item>/<entry> chunks of one feed document (scripts).
MaxChunks == 2
\* Freely chosen entries when the source list starts with uniform sources.
MaxAfterBulk == 1

\* ------------------------------------------------------- program constants

\* definitivo line 266: if(count >= 18) break
PerSourceCap == 18
\* definitivo lines 267, 289: if(all.length >= 80) break; all.slice(0,80)
GlobalCap == 80
\* scripts line 429: cfg.limit ?? 80
DefaultLimit == 80

\* ------------------------------------------------------------ input values

Variants == {"definitivo", "scripts"}

PlainTitle == "Prefeitura inaugura praca"
\* The same article under a title the publisher has edited.
EditedTitle == "Prefeitura inaugura praca nova"
BlockedTitle == "Assassinato em praca publica"
BlockedSummary == "crime no centro"

\* it.link when the parser hands over an object instead of a string.
NotAString == "[object Object]"
ArticleUrl == "https://news.example/a1"
\* What the redirect-following GET reports as res.url for ArticleUrl.
RedirectedUrl == "https://publisher.example/a1"

FeedImage == "https://img.example/i1"
OgImage == "https://img.example/i2"
ImageUrls == {FeedImage, OgImage}

\* A feed URL is a tuple of strings; the empty string is <<>>.
NoUrl == <<>>
RssUrl == <<"https://feeds.example/rss">>
\* buildGoogleNewsRss / buildGoogleNewsRssUrl: the endpoint with q=<query>.
GoogleUrlOf(query) == <<"https://news.google.com/rss/search?q=", query>>

\* Source names, unique per run; the i-th configured source is SourceNames[i].
SourceNames == <<"Fonte 01", "Fonte 02", "Fonte 03", "Fonte 04", "Fonte 05",
                 "Fonte 06", "Fonte 07", "Fonte 08", "Fonte 09", "Fonte 10",
                 "Fonte 11", "Fonte 12">>

\* A source of the config: type, rss (direct feed URL or none), query, and the
\* enrich flag ("absent" or "false").
SourceConfigs ==
    [type : {"rss", "google_news"}, rss : {NoUrl, RssUrl},
     query : {"", "vitoria"}, enrich : {"absent", "false"}]

\* A google_news source that names neither a query nor a direct feed URL.
LacksQuery(s) == s.type = "google_news" /\ s.query = "" /\ s.rss = NoUrl

\* The "limit" of the config file: absent, or a number.
NoLimit == [given |-> FALSE, value |-> 0]
Limits == {NoLimit, [given |-> TRUE, value |-> 1]}

\* Raw date strings of a feed or a page, and the year new Date() reads in each
\* (month, day and time are the same in all of them).
RawDates == {"", "not a date", "2024-01-01T00:00:00Z", "2025-01-01T00:00:00Z",
             "+012345-01-01T00:00:00Z"}
Years == {2024, 2025, 12345}
Invalid == 0 - 1
DateParse(s) ==
    CASE s = "2024-01-01T00:00:00Z" -> 2024
      [] s = "2025-01-01T00:00:00Z" -> 2025
      [] s = "+012345-01-01T00:00:00Z" -> 12345
      [] OTHER -> Invalid

\* -------------------------------------------------------------- ISO strings

\* A string is modelled as the sequence of its characters; only the year part
\* of an ISO string is kept (the rest is equal in all modelled instants).
Digits == <<"0", "1", "2", "3", "4", "5", "6", "7", "8", "9">>
DigitOf(n) == Digits[(n % 10) + 1]

\* Date.prototype.toISOString: YYYY for years 0..9999, else the expanded
\* form with a sign and six digits.
toISOString(y) ==
    IF y >= 0 /\ y <= 9999
    THEN <<DigitOf(y \div 1000), DigitOf(y \div 100), DigitOf(y \div 10), DigitOf(y)>>
    ELSE <<IF y < 0 THEN "-" ELSE "+",
           DigitOf((IF y < 0 THEN 0 - y ELSE y) \div 100000),
           DigitOf((IF y < 0 THEN 0 - y ELSE y) \div 10000),
           DigitOf((IF y < 0 THEN 0 - y ELSE y) \div 1000),
           DigitOf((IF y < 0 THEN 0 - y ELSE y) \div 100),
           DigitOf((IF y < 0 THEN 0 - y ELSE y) \div 10),
           DigitOf(IF y < 0 THEN 0 - y ELSE y)>>

\* Collation order of the characters of an ISO year: the sign characters sort
\* before every digit (in the root collation and in code-point order alike).
CollationOrder == <<"-", "+", "0", "1", "2", "3", "4", "5", "6", "7", "8", "9">>
Weight(c) == CHOOSE i \in 1..Len(CollationOrder) : CollationOrder[i] = c

\* String.prototype.localeCompare on two such strings: -1, 0 or 1.
RECURSIVE localeCompare(_, _)
localeCompare(a, b) ==
    IF a = <<>> /\ b = <<>> THEN 0
    ELSE IF a = <<>> THEN 0 - 1
    ELSE IF b = <<>> THEN 1
    ELSE IF Weight(Head(a)) < Weight(Head(b)) THEN 0 - 1
    ELSE IF Weight(Head(a)) > Weight(Head(b)) THEN 1
    ELSE localeCompare(Tail(a), Tail(b))

\* The publishedAt strings a run can hold, and localeCompare tabulated on them.
IsoStrings == {<<>>} \cup {toISOString(y) : y \in Years}
Collate == [a \in IsoStrings, b \in IsoStrings |-> localeCompare(a, b)]

\* definitivo normalizeDate: "" for an empty or unparseable string, else the
\* ISO string of the parsed instant (no plausibility check on the year).
normalizeDate(s) ==
    IF s = "" THEN <<>>
    ELSE IF DateParse(s) = Invalid THEN <<>>
    ELSE toISOString(DateParse(s))


\* ------------------------------------------------------------ network calls

\* What a remote endpoint does with one request: answers usably, fails (an
\* error status, a refused connection, an oversized body), or never responds.
Outcomes == {"ok", "fail", "silent"}

\* A call as the caller sees it: with an abort timer a silent endpoint ends as
\* a failure when the timer fires; without one the await never completes.
Await(hasTimeout, outcome) ==
    IF outcome = "silent"
    THEN (IF hasTimeout THEN "fail" ELSE "blocked")
    ELSE outcome

\* definitivo fetchText: AbortController + setTimeout(timeoutMs).
fetchText(outcome) == Await(TRUE, outcome)

\* definitivo resolveFinalUrl: fetch without signal; any rejection is caught
\* and the original url kept; res.url otherwise.
resolveFinalUrl(url, outcome) ==
    LET r == Await(FALSE, outcome)
    IN  [blocked |-> r = "blocked",
         url |-> IF r = "ok" THEN RedirectedUrl ELSE url]

\* definitivo parseFeed: rss-parser with timeout: 20000.
parseFeed(outcome) == Await(TRUE, outcome)

\* The page an article URL serves when it can be fetched: its og:image and
\* its article:published_time.
PageImage == OgImage
PageTime == "2024-01-01T00:00:00Z"

\* enrichFromArticle with the try/catch around its direct fetch taken away: a
\* failing direct fetch rejects the call.
enrichFromArticle_Uncaught(articleUrl, page) ==
    IF articleUrl = ""
    THEN [status |-> "returned", imageUrl |-> "", publishedAt |-> "",
          finalUrl |-> "", requests |-> 0]
    ELSE
    LET fin == resolveFinalUrl(articleUrl, page.redirect)
        direct == fetchText(page.direct)
    IN  IF fin.blocked
        THEN [status |-> "blocked", imageUrl |-> "", publishedAt |-> "",
              finalUrl |-> "", requests |-> 1]
        ELSE IF direct # "ok"
        THEN [status |-> "threw", imageUrl |-> "", publishedAt |-> "",
              finalUrl |-> "", requests |-> 2]
        ELSE [status |-> "returned", imageUrl |-> PageImage, publishedAt |-> PageTime,
              finalUrl |-> fin.url, requests |-> 2]

\* definitivo enrichFromArticle. page = [redirect, direct, proxy] are the
\* outcomes of its three requests. Result: status "returned" | "blocked",
\* and the {imageUrl, publishedAt, finalUrl} object.
enrichFromArticle(articleUrl, page) ==
    IF articleUrl = ""
    THEN [status |-> "returned", imageUrl |-> "", publishedAt |-> "",
          finalUrl |-> "", requests |-> 0]
    ELSE
    LET fin == resolveFinalUrl(articleUrl, page.redirect)
        direct == fetchText(page.direct)
        proxy == IF direct = "ok" THEN "unused" ELSE fetchText(page.proxy)
        html == direct = "ok" \/ proxy = "ok"
    IN  IF fin.blocked
        THEN [status |-> "blocked", imageUrl |-> "", publishedAt |-> "",
              finalUrl |-> "", requests |-> 1]
        ELSE [status |-> "returned",
              imageUrl |-> IF html THEN PageImage ELSE "",
              publishedAt |-> IF html THEN PageTime ELSE "",
              finalUrl |-> fin.url,
              requests |-> IF direct = "ok" THEN 2 ELSE 3]

\* ------------------------------------------------------------- image cache

sha1(s) == <<"sha1", s>>
\* A file of IMG_DIR is <<key, ext>>; a manifest image path is "" (<<>>) or
\* "./data/img/" + file.
PathOf(file) == <<"./data/img/", file>>
NoPath == <<>>
\* (x.image || "").replace("./data/img/", "")
FileOf(path) == path[2]

\* downloadImage without the look-up of an existing file (lines 98-99).
downloadImage_NoLookup(url, dl, d) ==
    IF url = "" THEN [path |-> NoPath, disk |-> d, net |-> FALSE]
    ELSE IF Await(TRUE, dl) = "ok"
    THEN [path |-> PathOf(<<sha1(url), ".jpg">>),
          disk |-> d \cup {<<sha1(url), ".jpg">>}, net |-> TRUE]
    ELSE [path |-> NoPath, disk |-> d, net |-> TRUE]

\* definitivo downloadImage on cache directory d; dl is the image host's
\* outcome. Result: the path returned, the directory afterwards, and whether
\* a network request was made.
downloadImage(url, dl, d) ==
    IF url = "" THEN [path |-> NoPath, disk |-> d, net |-> FALSE]
    ELSE IF \E f \in d : f[1] = sha1(url)
    THEN [path |-> PathOf(CHOOSE f \in d : f[1] = sha1(url)), disk |-> d, net |-> FALSE]
    ELSE IF Await(TRUE, dl) = "ok"
    THEN [path |-> PathOf(<<sha1(url), ".jpg">>),
          disk |-> d \cup {<<sha1(url), ".jpg">>}, net |-> TRUE]
    ELSE [path |-> NoPath, disk |-> d, net |-> TRUE]

\* Files a previous run may have left in IMG_DIR.
OldFiles == {<<sha1(FeedImage), ".png">>, <<sha1("https://img.example/old"), ".jpg">>}


\* ------------------------------------------------------------ feed entries

DefaultPage == [redirect |-> "ok", direct |-> "ok", proxy |-> "ok"]
Pages == [redirect : Outcomes, direct : Outcomes, proxy : Outcomes]

\* An item of feed.items as rss-parser hands it over, with the outcomes of the
\* requests its processing may make (page: the article's three requests, dl:
\* the image host).
Entry(title, link, pubDate, media, page, dl) ==
    [title |-> title, link |-> link, pubDate |-> pubDate, media |-> media,
     page |-> page, dl |-> dl]

\* Whether the entry loop asks for enrichment (definitivo line 242).
NeedsEnrich(e) ==
    (e.media = "" \/ normalizeDate(e.pubDate) = <<>>) /\ e.link # ""

\* Outcomes the code never looks at are fixed, so that each behaviour of the
\* entry loop is drawn once.
Relevant(e) ==
    /\ ~NeedsEnrich(e) => e.page = DefaultPage
    /\ e.page.redirect = "silent" => e.page.direct = "ok" /\ e.page.proxy = "ok"
    /\ e.page.direct = "ok" => e.page.proxy = "ok"
    /\ ( \/ (NeedsEnrich(e) /\ e.page.redirect = "silent")
         \/ (e.media = "" /\ ~NeedsEnrich(e))
         \/ (e.media = "" /\ fetchText(e.page.direct) # "ok"
                          /\ fetchText(e.page.proxy) # "ok") ) => e.dl = "ok"

\* Entries without a title, and with a link that is no string.
BrokenEntries ==
    {Entry("", "", "", "", DefaultPage, "ok"),
     Entry(PlainTitle, NotAString, "", "", DefaultPage, "ok")}
\* Entries that differ in their date only.
DatedEntries ==
    {Entry(PlainTitle, "", d, "", DefaultPage, "ok") : d \in RawDates}
\* Entries with a feed image and no link.
ImageEntries ==
    {Entry(PlainTitle, "", "2025-01-01T00:00:00Z", FeedImage, DefaultPage, o) :
        o \in Outcomes}
\* Entries with a link and neither image nor date: every outcome of the
\* article's requests and of the image host.
BareEntries ==
    {e \in [title : {PlainTitle}, link : {ArticleUrl}, pubDate : {""},
            media : {""}, page : Pages, dl : Outcomes] : Relevant(e)}
AllFail == [redirect |-> "fail", direct |-> "fail", proxy |-> "fail"]
\* Entries with a link and an image or a date of their own.
PartialEntries ==
    {e \in [title : {PlainTitle}, link : {ArticleUrl},
            pubDate : {"", "2025-01-01T00:00:00Z"}, media : {"", FeedImage},
            page : {DefaultPage, AllFail}, dl : {"ok"}] :
        Relevant(e) /\ (e.pubDate # "" \/ e.media # "")}
\* Entries whose title holds a blocklist keyword.
BlockedEntries ==
    {Entry(BlockedTitle, ArticleUrl, "", "", DefaultPage, "ok"),
     Entry(BlockedTitle, "", "2025-01-01T00:00:00Z", FeedImage, DefaultPage, "ok")}

\* The bare entry again, under an edited title.
RetitledEntries == {Entry(EditedTitle, ArticleUrl, "", "", DefaultPage, "ok")}

Entries ==
    BrokenEntries \cup DatedEntries \cup ImageEntries \cup BareEntries
        \cup PartialEntries \cup BlockedEntries \cup RetitledEntries

\* The entry of a uniform feed: titled, dated, no link, no image.
BulkEntry ==
    [title |-> PlainTitle, link |-> "", pubDate |-> "2025-01-01T00:00:00Z",
     media |-> "", page |-> DefaultPage, dl |-> "ok"]


\* The config entry of a source with a uniform feed: a direct RSS URL.
BulkSource == [type |-> "rss", rss |-> RssUrl, query |-> "", enrich |-> "absent"]

\* -------------------------------------------------------------------- state

VARIABLES
    variant,     \* which build_news.mjs runs
    cfgPresent,  \* whether the sources config file exists
    cfgLimit,    \* its "limit" once the run has read it (scripts, line 429)
    pc,          \* "start" | "sources" | "entries" | "done" | "crashed" | "blocked"
    srcIdx,      \* sources of the config walked so far
    bulkDone,    \* how many of them served the uniform feed
    used,        \* freely chosen entries drawn so far
    cur,         \* the source whose entries are being processed
    count,       \* definitivo: count, items of the current source
    all,         \* definitivo: all / scripts: allItems
    perSource,   \* perSource: <<[source, count]>>
    failures,    \* failures: <<[source, error]>> (the url field is left out)
    disk,        \* the files of IMG_DIR
    netCount,    \* per image URL: network downloads attempted
    okCount,     \* per image URL: downloads that wrote a file
    last,        \* what the entry loop did with the entry processed last
    noQuery,     \* names of the google_news sources configured without query or rss
    manifest     \* the payload written to OUT_PATH

vars == <<variant, cfgPresent, cfgLimit, pc, srcIdx, bulkDone, used, cur, count, all, perSource,
          failures, disk, netCount, okCount, last, noQuery, manifest>>

NoSource == [name |-> "", kind |-> "none", enrich |-> "absent"]
NoLast ==
    [outcome |-> "none", source |-> "", title |-> "", link |-> "",
     feedImage |-> FALSE, feedDate |-> FALSE, enrich |-> "none", html |-> FALSE,
     imageUrl |-> "", cached |-> FALSE, dl |-> "none", path |-> NoPath,
     enrichOff |-> FALSE]
NoManifest ==
    [written |-> FALSE, items |-> <<>>, error |-> "",
     stats |-> [sources |-> 0, items_before_limit |-> 0,
                per_source |-> <<>>, failures |-> <<>>]]

Init ==
    /\ variant \in Variants
    /\ cfgPresent \in BOOLEAN
    /\ cfgLimit = NoLimit
    /\ pc = "start"
    /\ srcIdx = 0
    /\ bulkDone = 0
    /\ used = 0
    /\ cur = NoSource
    /\ count = 0
    /\ all = <<>>
    /\ perSource = <<>>
    /\ failures = <<>>
    /\ disk \in {{}, OldFiles}
    /\ netCount = [u \in ImageUrls |-> 0]
    /\ okCount = [u \in ImageUrls |-> 0]
    /\ last = NoLast
    /\ noQuery = {}
    /\ manifest = NoManifest

\* ------------------------------------------------------------- definitivo

\* main, lines 197-207: the directories are made, then readFileSync of a
\* missing SOURCES_PATH throws and main().catch exits with status 1.
D_ReadConfig ==
    /\ variant = "definitivo" /\ pc = "start"
    /\ pc' = IF cfgPresent THEN "sources" ELSE "crashed"
    /\ UNCHANGED <<variant, cfgPresent, cfgLimit, srcIdx, bulkDone, used, cur, count, all,
                   perSource, failures, disk, netCount, okCount, last, noQuery, manifest>>

\* lines 212-216: feedUrl of a source named name.
D_FeedUrl(s, name) ==
    IF s.type = "google_news"
    THEN GoogleUrlOf(IF s.query # "" THEN s.query ELSE name)
    ELSE s.rss

\* Whether another source may follow: the source list is a uniform prefix of
\* zero or MaxBulk sources (each reachable, with a long feed), then up to
\* MaxSources sources with freely chosen feeds (after a uniform prefix the
\* enrich field of a source is left out).
MayBegin(kind) ==
    IF kind = "bulk"
    THEN bulkDone = srcIdx /\ bulkDone < MaxBulk
    ELSE bulkDone \in {0, MaxBulk} /\ srcIdx - bulkDone < MaxSources

\* Freely chosen entries the run may still draw.
Budget == IF bulkDone = 0 THEN MaxEntries ELSE MaxAfterBulk

\* One turn of for(const s of sources) up to the entry loop, lines 209-226:
\* a missing URL and a rejected parseFeed are recorded and the loop goes on.
D_BeginSource(s, kind, feed) ==
    /\ variant = "definitivo" /\ pc = "sources"
    /\ MayBegin(kind)
    /\ LET name == SourceNames[srcIdx + 1]
           feedUrl == D_FeedUrl(s, name)
       IN  /\ kind = "bulk" => s = BulkSource /\ parseFeed(feed) = "ok"
           /\ bulkDone > 0 => s.enrich = "absent"
           /\ srcIdx' = srcIdx + 1
           /\ noQuery' = IF LacksQuery(s) THEN noQuery \cup {name} ELSE noQuery
           /\ bulkDone' = IF kind = "bulk" THEN bulkDone + 1 ELSE bulkDone
           /\ count' = 0
           /\ IF feedUrl = NoUrl
              THEN /\ failures' = Append(failures,
                         [source |-> name, error |-> "missing url"])
                   /\ UNCHANGED <<pc, cur>>
              ELSE IF parseFeed(feed) # "ok"
              THEN /\ failures' = Append(failures,
                         [source |-> name, error |-> "feed error"])
                   /\ UNCHANGED <<pc, cur>>
              ELSE /\ pc' = "entries"
                   /\ cur' = [name |-> name, kind |-> kind, enrich |-> s.enrich]
                   /\ UNCHANGED failures
    /\ UNCHANGED <<variant, cfgPresent, cfgLimit, used, all, perSource, disk, netCount, okCount,
                   last, manifest>>

\* definitivo stableId, lines 193-195: source + ":" + sha1(url + "|" + title).
stableId(source, title, url) == <<source, sha1(<<url, "|", title>>)>>

\* The body of for(const it of items), lines 229-263, on entry e with cache
\* directory d: what it did (outcome "skipped" | "raised" | "blocked" |
\* "pushed"), the item it pushes and the download it made.
EntryStep(e, name, n, d) ==
    LET publishedAt0 == normalizeDate(e.pubDate)
        enrich == NeedsEnrich(e)
        enr == IF enrich THEN enrichFromArticle(e.link, e.page)
               ELSE [status |-> "none", imageUrl |-> "", publishedAt |-> "",
                     finalUrl |-> "", requests |-> 0]
        imageRemote == IF e.media # "" THEN e.media ELSE enr.imageUrl
        publishedAt == IF publishedAt0 # <<>> THEN publishedAt0
                       ELSE normalizeDate(enr.publishedAt)
        finalUrl == IF enr.finalUrl # "" THEN enr.finalUrl ELSE e.link
        got == downloadImage(imageRemote, e.dl, d)
        obs == [outcome |-> "skipped", source |-> name, title |-> e.title,
                link |-> e.link, feedImage |-> e.media # "",
                feedDate |-> publishedAt0 # <<>>, enrich |-> "none", html |-> FALSE,
                imageUrl |-> "", cached |-> FALSE, dl |-> "none", path |-> NoPath,
                enrichOff |-> FALSE]
        none == [n |-> 0, id |-> stableId("", "", ""), source |-> "", title |-> "",
                 publishedAt |-> <<>>, url |-> "", image |-> NoPath]
    IN  IF e.title = ""
        THEN [obs |-> obs, item |-> none, disk |-> d, url |-> "", net |-> FALSE]
        ELSE IF e.link = NotAString
        THEN [obs |-> [obs EXCEPT !.outcome = "raised"], item |-> none,
              disk |-> d, url |-> "", net |-> FALSE]
        ELSE IF enr.status \in {"blocked", "threw"}
        THEN [obs |-> [obs EXCEPT !.outcome = IF enr.status = "threw" THEN "raised"
                                               ELSE "blocked",
                                  !.enrich = enr.status],
              item |-> none, disk |-> d, url |-> "", net |-> FALSE]
        ELSE [obs |-> [obs EXCEPT !.outcome = "pushed", !.enrich = enr.status,
                                  !.html = enr.imageUrl # "",
                                  !.imageUrl = imageRemote,
                                  !.cached = \E f \in d : f[1] = sha1(imageRemote),
                                  !.dl = IF imageRemote = "" THEN "none"
                                         ELSE IF got.net THEN "net" ELSE "hit",
                                  !.path = got.path],
              item |-> [n |-> n, id |-> stableId(name, e.title, finalUrl),
                        source |-> name, title |-> e.title,
                        publishedAt |-> publishedAt, url |-> finalUrl,
                        image |-> got.path],
              disk |-> got.disk, url |-> imageRemote, net |-> got.net]

\* One turn of the entry loop, lines 228-273, with its two breaks and the
\* catch of the source's try.
D_ProcessEntry(e) ==
    /\ variant = "definitivo" /\ pc = "entries"
    /\ IF cur.kind = "bulk" THEN e = BulkEntry ELSE e \in Entries /\ used < Budget
    /\ LET r == EntryStep(e, cur.name, Len(all) + 1, disk)
           out == r.obs.outcome
           break == count + 1 >= PerSourceCap \/ Len(all) + 1 >= GlobalCap
       IN  /\ last' = [r.obs EXCEPT !.enrichOff = (cur.enrich = "false")]
           /\ used' = IF cur.kind = "bulk" THEN used ELSE used + 1
           /\ disk' = r.disk
           /\ netCount' = IF r.net THEN [netCount EXCEPT ![r.url] = @ + 1] ELSE netCount
           /\ okCount' = IF r.net /\ r.obs.path # NoPath
                         THEN [okCount EXCEPT ![r.url] = @ + 1] ELSE okCount
           /\ all' = IF out = "pushed" THEN Append(all, r.item) ELSE all
           /\ count' = IF out = "pushed" THEN count + 1 ELSE count
           /\ failures' = IF out = "raised"
                          THEN Append(failures, [source |-> cur.name, error |-> "TypeError"])
                          ELSE failures
           /\ perSource' = IF out = "pushed" /\ break
                           THEN Append(perSource, [source |-> cur.name, count |-> count + 1])
                           ELSE perSource
           /\ pc' = CASE out = "blocked" -> "blocked"
                      [] out = "raised" -> "sources"
                      [] out = "pushed" /\ break -> "sources"
                      [] OTHER -> "entries"
           /\ cur' = IF pc' = "sources" THEN NoSource ELSE cur
    /\ UNCHANGED <<variant, cfgPresent, cfgLimit, srcIdx, bulkDone, noQuery, manifest>>

\* The entry loop runs out of items: perSource.push, line 270. A uniform feed
\* is longer than any cap and ends by a break only.
D_EndOfFeed ==
    /\ variant = "definitivo" /\ pc = "entries" /\ cur.kind = "varied"
    /\ perSource' = Append(perSource, [source |-> cur.name, count |-> count])
    /\ pc' = "sources"
    /\ cur' = NoSource
    /\ UNCHANGED <<variant, cfgPresent, cfgLimit, srcIdx, bulkDone, used, count, all, failures,
                   disk, netCount, okCount, last, noQuery, manifest>>

\* Array.prototype.sort with the comparator of line 277: a stable sort, an
\* item moves ahead of another only if the comparator says so.
Compare(a, b) == Collate[b.publishedAt, a.publishedAt]

\* The sort inserts each item behind every item that does not compare after
\* it: ties keep their order.
RECURSIVE Insert(_, _)
Insert(x, sorted) ==
    IF sorted = <<>> THEN <<x>>
    ELSE IF Compare(Head(sorted), x) > 0 THEN <<x>> \o sorted
    ELSE <<Head(sorted)>> \o Insert(x, Tail(sorted))

RECURSIVE SortFrom(_, _, _)
SortFrom(items, i, sorted) ==
    IF i > Len(items) THEN sorted
    ELSE SortFrom(items, i + 1, Insert(items[i], sorted))

SortItems(items) == SortFrom(items, 1, <<>>)

Slice(items, k) == SubSeq(items, 1, IF k < Len(items) THEN k ELSE Len(items))

\* The retention set without the image of the item sorted first.
UsedFiles_SkipsFirst(items) ==
    {FileOf(items[i].image) : i \in {k \in DOMAIN items : k > 1 /\ items[k].image # NoPath}}

\* Line 280: the files the sweep keeps.
UsedFiles(items) ==
    {FileOf(items[i].image) : i \in {j \in 1..Len(items) : items[j].image # NoPath}}

\* Lines 276-299: sort, sweep of IMG_DIR, payload, write.
D_Finalize ==
    /\ variant = "definitivo" /\ pc = "sources"
    /\ LET sorted == SortItems(all)
       IN  /\ all' = sorted
           /\ disk' = disk \cap UsedFiles(sorted)
           /\ manifest' = [written |-> TRUE, items |-> Slice(sorted, GlobalCap),
                           error |-> "",
                           stats |-> [sources |-> srcIdx,
                                      items_before_limit |-> Len(sorted),
                                      per_source |-> perSource,
                                      failures |-> failures]]
    /\ pc' = "done"
    /\ UNCHANGED <<variant, cfgPresent, cfgLimit, srcIdx, bulkDone, used, cur,
                   count, perSource, failures, netCount, okCount, last, noQuery>>

\* ------------------------------------------------------------------ scripts

\* BLOCKLIST, lines 27-32, on the modelled texts: the ones whose lower-cased
\* form holds a keyword ("assassin", "crime").
HasKeyword(text) == text \in {BlockedTitle, BlockedSummary}

\* isBlocked, lines 70-72: a keyword in title + " " + summary.
isBlocked(title, summary) == HasKeyword(title) \/ HasKeyword(summary)

\* Lines 70-136: the closing brace of isBlocked stands at line 136, so
\* tryParsePtBrDate, normalizeDate and int are declared inside isBlocked and
\* no binding of these names exists at module level.
S_normalizeDateInScope == FALSE

\* A call of normalizeDate from module-level code (lines 268, 314, 356, 376):
\* a ReferenceError while the name is unbound; else lines 108-130 (empty and
\* unparseable strings and implausible years give "").
S_normalizeDate(value) ==
    IF ~S_normalizeDateInScope THEN [threw |-> TRUE, value |-> <<>>]
    ELSE IF value = "" \/ DateParse(value) = Invalid \/ DateParse(value) > 9999
    THEN [threw |-> FALSE, value |-> <<>>]
    ELSE [threw |-> FALSE, value |-> toISOString(DateParse(value))]

\* cleanTitle, lines 50-59: the modelled titles carry no trailing source name.
cleanTitle(title, sourceName) == title

\* An <item>/<entry> chunk of a feed document, as the patterns of parseRss
\* read it: title, link, summary, date, image (the chunks drawn carry none);
\* page is the outcome of requesting the linked article.
Chunks ==
    [title : {"", PlainTitle, BlockedTitle}, link : {"", ArticleUrl},
     summary : {"", BlockedSummary}, date : {"2025-01-01T00:00:00Z"},
     image : {""}, page : {"ok"}]

RECURSIVE SeqsUpTo(_, _)
SeqsUpTo(S, n) ==
    IF n = 0 THEN {<<>>}
    ELSE SeqsUpTo(S, n - 1)
            \cup {Append(q, x) : q \in {r \in SeqsUpTo(S, n - 1) : Len(r) = n - 1}, x \in S}

\* The feed documents drawn: up to MaxChunks chunks.
Feeds == SeqsUpTo(Chunks, MaxChunks)

\* parseRss, lines 257-273: chunks without a title are skipped; for a titled
\* chunk normalizeDate is called (line 268). An accepted date is kept as the
\* text it was read from: normalizeDate maps its own result to itself.
RECURSIVE parseRss(_)
parseRss(chunks) ==
    IF chunks = <<>> THEN [threw |-> FALSE, entries |-> <<>>]
    ELSE LET c == Head(chunks)
             date == S_normalizeDate(c.date)
             rest == parseRss(Tail(chunks))
         IN  IF c.title = "" THEN rest
             ELSE IF date.threw \/ rest.threw THEN [threw |-> TRUE, entries |-> <<>>]
             ELSE [threw |-> FALSE,
                   entries |-> <<[title |-> c.title, url |-> c.link, summary |-> c.summary,
                                  publishedAt |-> IF date.value = <<>> THEN "" ELSE c.date,
                                  image |-> c.image,
                                  page |-> c.page]>> \o rest.entries]

\* scripts enrichFromArticle, lines 302-318: one fetchText with a timeout, the
\* whole body inside try/catch; the catch returns the url with nothing else.
S_enrichFromArticle(url, outcome) ==
    LET date == S_normalizeDate(PageTime)
    IN  IF fetchText(outcome) # "ok" \/ date.threw
        THEN [finalUrl |-> url, ogImage |-> "", publishedAt |-> ""]
        ELSE [finalUrl |-> RedirectedUrl, ogImage |-> PageImage, publishedAt |-> PageTime]

\* scripts stableId, lines 138-143: a 32-bit polynomial hash of its one
\* argument, as text. Distinct modelled inputs have distinct hashes.
S_stableId(input) == <<"h31", input>>

\* The loop of collectFromSource, lines 347-380, over the parsed entries.
RECURSIVE S_Items(_, _, _, _)
S_Items(entries, name, allowArticleEnrich, n) ==
    IF entries = <<>> THEN [threw |-> FALSE, items |-> <<>>]
    ELSE LET e == Head(entries)
             title == cleanTitle(e.title, name)
             date0 == S_normalizeDate(e.publishedAt)
             enrich == (e.image = "" \/ date0.value = <<>>)
                          /\ allowArticleEnrich /\ e.url # ""
             enr == IF enrich THEN S_enrichFromArticle(e.url, e.page)
                    ELSE [finalUrl |-> e.url, ogImage |-> "", publishedAt |-> ""]
             image == IF e.image # "" THEN e.image ELSE enr.ogImage
             date == S_normalizeDate(enr.publishedAt)
             skip == title = "" \/ isBlocked(title, e.summary)
             rest == S_Items(Tail(entries), name, allowArticleEnrich,
                             IF skip THEN n ELSE n + 1)
         IN  IF skip THEN rest
             ELSE IF date0.threw \/ date.threw \/ rest.threw
             THEN [threw |-> TRUE, items |-> <<>>]
             ELSE [threw |-> FALSE,
                   items |-> <<[n |-> n,
                                id |-> <<name, S_stableId(IF enr.finalUrl # ""
                                                          THEN enr.finalUrl ELSE title)>>,
                                source |-> name, title |-> title,
                                publishedAt |-> IF date0.value # <<>> THEN date0.value
                                                ELSE date.value,
                                url |-> enr.finalUrl,
                                image |-> IF image = "" THEN NoPath
                                          ELSE <<"remote", image>>]>> \o rest.items]

\* collectFromSource, lines 320-383. resp = [fetch, chunks]: the outcome of the
\* feed request and the chunks of the document.
collectFromSource(src, name, resp, n) ==
    LET feedUrl == IF src.type = "google_news" /\ src.rss = NoUrl
                   THEN GoogleUrlOf(src.query) ELSE src.rss
        allowArticleEnrich == IF src.type = "google_news" THEN src.enrich # "false"
                              ELSE TRUE
        parsed == parseRss(resp.chunks)
        out == S_Items(parsed.entries, name, allowArticleEnrich, n)
    IN  IF feedUrl = NoUrl
        THEN [threw |-> FALSE, items |-> <<>>, error |-> "missing rss/query url"]
        ELSE IF fetchText(resp.fetch) # "ok"
        THEN [threw |-> TRUE, items |-> <<>>, error |-> "fetch failed"]
        ELSE IF parsed.threw \/ out.threw
        THEN [threw |-> TRUE, items |-> <<>>, error |-> "normalizeDate is not defined"]
        ELSE [threw |-> FALSE, items |-> out.items, error |-> ""]

\* main, lines 390-399 read outPath, a const declared at line 402: inside the
\* missing-config branch the name is in its temporal dead zone.
S_outPathInitialized == FALSE

\* main, lines 385-407: with the config missing, the empty payload is built,
\* then the read of outPath (line 396) decides: ReferenceError, caught by
\* main().catch (exit status 1), or the payload is written and exit(0).
S_ReadConfig ==
    /\ variant = "scripts" /\ pc = "start"
    /\ IF cfgPresent
       THEN pc' = "sources" /\ UNCHANGED manifest
       ELSE IF S_outPathInitialized
       THEN /\ manifest' = [NoManifest EXCEPT !.written = TRUE, !.error = "missing config"]
            /\ pc' = "done"
       ELSE pc' = "crashed" /\ UNCHANGED manifest
    /\ UNCHANGED <<variant, cfgPresent, cfgLimit, srcIdx, bulkDone, used, cur, count,
                   all, perSource, failures, disk, netCount, okCount, last, noQuery>>

\* One turn of for (const s of sources), lines 409-419.
S_CollectSource(s, resp) ==
    /\ variant = "scripts" /\ pc = "sources"
    /\ srcIdx < MaxSources
    /\ resp.fetch # "ok" => resp.chunks = <<>>
    /\ LET name == SourceNames[srcIdx + 1]
           r == collectFromSource(s, name, resp, Len(all) + 1)
       IN  /\ srcIdx' = srcIdx + 1
           /\ noQuery' = IF LacksQuery(s) THEN noQuery \cup {name} ELSE noQuery
           /\ failures' = IF r.threw \/ r.error # ""
                          THEN Append(failures, [source |-> name, error |-> r.error])
                          ELSE failures
           /\ perSource' = IF r.threw THEN perSource
                           ELSE Append(perSource, [source |-> name, count |-> Len(r.items)])
           /\ all' = IF r.threw THEN all ELSE all \o r.items
    /\ UNCHANGED <<variant, cfgPresent, cfgLimit, pc, bulkDone, used, cur, count,
                   disk, netCount, okCount, last, manifest>>

\* Lines 422-425: every order of the items the random keys can produce.
Shuffles(items) ==
    {[i \in 1..Len(items) |-> items[p[i]]] :
        p \in {q \in [1..Len(items) -> 1..Len(items)] :
                 \A i, j \in 1..Len(items) : q[i] = q[j] => i = j}}

\* Lines 421-445: shuffle, slice(0, cfg.limit ?? 80), write.
S_Finalize(shuffled, limit) ==
    /\ variant = "scripts" /\ pc = "sources"
    /\ shuffled \in Shuffles(all)
    /\ cfgLimit' = limit
    /\ manifest' = [written |-> TRUE,
                    items |-> Slice(shuffled, IF limit.given THEN limit.value
                                              ELSE DefaultLimit),
                    error |-> "",
                    stats |-> [sources |-> srcIdx, items_before_limit |-> Len(all),
                               per_source |-> perSource, failures |-> failures]]
    /\ pc' = "done"
    /\ UNCHANGED <<variant, cfgPresent, srcIdx, bulkDone, used, cur, count, all,
                   perSource, failures, disk, netCount, okCount, last, noQuery>>

Next ==
    \/ D_ReadConfig
    \/ \E kind \in {"varied", "bulk"} :
          /\ variant = "definitivo" /\ pc = "sources" /\ MayBegin(kind)
          /\ \E s \in SourceConfigs, feed \in Outcomes : D_BeginSource(s, kind, feed)
    \/ \E e \in Entries \cup {BulkEntry} : D_ProcessEntry(e)
    \/ D_EndOfFeed
    \/ D_Finalize
    \/ S_ReadConfig
    \/ /\ variant = "scripts" /\ pc = "sources" /\ srcIdx < MaxSources
       /\ \E s \in SourceConfigs, fetch \in Outcomes, chunks \in Feeds :
             S_CollectSource(s, [fetch |-> fetch, chunks |-> chunks])
    \/ /\ variant = "scripts" /\ pc = "sources"
       /\ \E limit \in Limits : \E shuffled \in Shuffles(all) :
             S_Finalize(shuffled, limit)

Spec == Init /\ [][Next]_vars


\* ------------------------------------------------------------------ claims

\* The instant an ISO string of a manifest item denotes ("" is no instant).
InstantOf(iso) ==
    IF iso = <<>> THEN Invalid ELSE CHOOSE y \in Years : toISOString(y) = iso

Running == pc \in {"entries", "sources"}

\* C1: a source that fails as a whole (unreachable feed, unparseable feed, an
\* exception while its entries are processed) is recorded in failures under
\* its name and contributes no item, neither to the collected list nor to the
\* written manifest; the run goes on to the manifest.
C1_FailedSourceContributesNothing ==
    /\ \A i \in DOMAIN failures : \A k \in DOMAIN all :
          all[k].source # failures[i].source
    /\ manifest.written =>
          \A i \in DOMAIN manifest.stats.failures : \A k \in DOMAIN manifest.items :
             manifest.items[k].source # manifest.stats.failures[i].source
    /\ failures # <<>> => pc # "crashed"

\* C2: a written manifest holds at most limit items, limit being the value
\* of the config file's "limit" when it gives one and 80 when it gives none.
\* definitivo never reads the field, so there it may hold any value.
C2_ManifestWithinConfiguredLimit ==
    manifest.written /\ cfgPresent =>
       \A lim \in (IF variant = "definitivo" THEN Limits ELSE {cfgLimit}) :
          Len(manifest.items) <= (IF lim.given THEN lim.value ELSE DefaultLimit)

\* C3: the items of a written manifest stand in descending order of their
\* publication instant, items without a known instant last, and items of equal
\* instant in the order in which they were collected.
C3_NewestFirst ==
    manifest.written =>
       \A i, j \in DOMAIN manifest.items :
          i < j =>
             LET a == manifest.items[i]
                 b == manifest.items[j]
             IN  /\ InstantOf(a.publishedAt) >= InstantOf(b.publishedAt)
                 /\ InstantOf(a.publishedAt) = InstantOf(b.publishedAt) => a.n < b.n

\* C4 as stated: whatever the first call's outcome, two calls of downloadImage
\* with the same URL make at most one network request for it.
C4_AtMostOneRequestPerUrl ==
    \A u \in ImageUrls : netCount[u] <= 1

\* C4, amended: per URL at most one download stores a file; a call that finds
\* a file named after the URL's hash in the cache directory makes no network
\* request and returns that file's path, the path every earlier call that
\* stored or found the file returned. (A download that fails stores nothing,
\* and the next call for the URL requests it again.)
C4_StoredImageIsReused ==
    /\ \A u \in ImageUrls : okCount[u] <= 1
    /\ Running /\ last.cached =>
          /\ last.dl = "hit"
          /\ last.path # NoPath
          /\ FileOf(last.path) \in disk
          /\ FileOf(last.path)[1] = sha1(last.imageUrl)
    /\ last.outcome = "pushed" /\ last.imageUrl # "" =>
          \A i \in DOMAIN all :
             (all[i].image # NoPath /\ FileOf(all[i].image)[1] = sha1(last.imageUrl))
                => all[i].image = last.path

\* C4 witness: an image was downloaded and stored once in this run, and the
\* latest call for the same URL found the file and made no request.
C4_SecondCallFoundTheFile ==
    \E u \in ImageUrls :
       /\ okCount[u] = 1 /\ netCount[u] = 1
       /\ last.imageUrl = u /\ last.cached /\ last.dl = "hit"
       /\ last.path = PathOf(<<sha1(u), ".jpg">>)

\* C5: when a definitivo run has completed, every file of the image cache
\* directory is the image of some item of the written manifest.
C5_CacheHoldsOnlyManifestImages ==
    variant = "definitivo" /\ pc = "done" =>
       \A f \in disk : \E i \in DOMAIN manifest.items :
          manifest.items[i].image = PathOf(f)

\* C6: a google_news source that names neither a query nor a direct feed URL
\* is a failed source: the written manifest lists exactly one failure for it
\* and holds no item of it.
C6_MissingQueryIsAFailure ==
    manifest.written =>
       \A name \in noQuery :
          /\ Cardinality({i \in DOMAIN manifest.stats.failures :
                            manifest.stats.failures[i].source = name}) = 1
          /\ \A k \in DOMAIN manifest.items : manifest.items[k].source # name

\* C7: with the config file missing the run does not fail: it writes a
\* manifest with no items and an error note and ends with exit status 0.
C7_MissingConfigWritesEmptyManifest ==
    ~cfgPresent /\ pc # "start" =>
       /\ pc = "done"
       /\ manifest.written
       /\ manifest.items = <<>>
       /\ manifest.error # ""

\* C8: every network request has a timeout, so no request that is never
\* answered holds the run forever.
C8_NoRequestWaitsForever ==
    pc # "blocked"

\* C9: the enricher never raises. When its requests fail (redirect
\* resolution, direct fetch, proxy fetch, in any combination) it returns; the
\* entry is then emitted with what the feed gave (no image and no date when the
\* feed had none and no page was read), and its source is not marked failed.
C9_EnricherNeverRaises ==
    /\ last.enrich # "threw"
    /\ last.enrich = "returned" =>
          /\ last.outcome = "pushed"
          /\ \A i \in DOMAIN failures : failures[i].source # last.source
          /\ Running =>
                /\ all # <<>>
                /\ all[Len(all)].title = last.title
                /\ all[Len(all)].source = last.source
                /\ (~last.html /\ ~last.feedImage) => all[Len(all)].image = NoPath
                /\ (~last.html /\ ~last.feedDate) => all[Len(all)].publishedAt = <<>>

\* C9 witness: the enricher was called for an entry with neither image nor
\* date, the redirect resolution, the direct fetch and the proxy fetch all
\* failed, and the entry was pushed with the link it came with.
C9_AllRequestsFailedEntryKept ==
    /\ Running
    /\ last.enrich = "returned" /\ ~last.html
    /\ ~last.feedImage /\ ~last.feedDate
    /\ last.outcome = "pushed"
    /\ all # <<>>
    /\ all[Len(all)].url = ArticleUrl
    /\ all[Len(all)].image = NoPath
    /\ all[Len(all)].publishedAt = <<>>

\* C10: an entry whose title holds a blocklisted keyword is discarded before
\* any request is made for it (no enrichment, no image download), and no such
\* entry is among the collected items.
C10_BlockedEntryDiscardedBeforeNetwork ==
    /\ HasKeyword(last.title) =>
          /\ last.outcome # "pushed"
          /\ last.enrich = "none"
          /\ last.dl = "none"
    /\ \A k \in DOMAIN all : ~HasKeyword(all[k].title)


\* C11: the ID of an item is a function of its source name and its final
\* article URL alone when it has a URL: any two collected items of the same
\* source with the same non-empty URL have the same ID, whatever their titles.
C11_IdFromSourceAndUrl ==
    \A i, j \in DOMAIN manifest.items :
       LET a == manifest.items[i]
           b == manifest.items[j]
       IN  (a.source = b.source /\ a.url = b.url /\ a.url # "") => a.id = b.id

\* C12: collection respects both caps: the collected list never holds more
\* than the global cap (80) of items, so stats.items_before_limit is at most
\* 80 and a source that starts with the cap reached adds nothing; and no source
\* is counted with more than the per-source cap (18).
C12_CollectionWithinCaps ==
    /\ Len(all) <= GlobalCap
    /\ \A i \in DOMAIN perSource : perSource[i].count <= PerSourceCap
    /\ manifest.written => manifest.stats.items_before_limit <= GlobalCap

\* C13: the enricher is invoked for an entry only if the entry has a link
\* and the feed gave it no image or no usable date, and never for an entry of
\* a source whose config says enrich: false.
C13_EnrichOnlyWhenNeededAndAllowed ==
    last.enrich # "none" =>
       /\ last.link = ArticleUrl
       /\ ~last.feedImage \/ ~last.feedDate
       /\ ~last.enrichOff

\* C14: when a definitivo run has completed, sweep included, every manifest
\* item with a non-empty image names a file that is in the image cache
\* directory; and while the run collects, every collected item's image is a
\* file of the directory.
C14_ManifestImagesExist ==
    variant = "definitivo" =>
       /\ pc = "done" =>
             \A i \in DOMAIN manifest.items :
                manifest.items[i].image # NoPath =>
                   FileOf(manifest.items[i].image) \in disk
       /\ Running =>
             \A i \in DOMAIN all :
                all[i].image # NoPath => FileOf(all[i].image) \in disk

\* C14 witness: a completed run whose manifest refers to a file a previous run
\* left in the directory (a cache hit) and to a file downloaded in this run,
\* while the sweep deleted the old file nothing refers to.
C14_SweepKeptWhatTheManifestUses ==
    /\ variant = "definitivo" /\ pc = "done"
    /\ okCount[OgImage] = 1 /\ netCount[FeedImage] = 0
    /\ <<sha1(FeedImage), ".png">> \in disk
    /\ <<sha1(OgImage), ".jpg">> \in disk
    /\ <<sha1("https://img.example/old"), ".jpg">> \notin disk
    /\ \E i, j \in DOMAIN manifest.items :
          /\ manifest.items[i].image = PathOf(<<sha1(FeedImage), ".png">>)
          /\ manifest.items[j].image = PathOf(<<sha1(OgImage), ".jpg">>)

=============================================================================
